---- MODULE Spec2Model ----
(***************************************************************************)
(* Model of sandboxed_api/tools/filewrapper/filewrapper.cc: the tool that  *)
(* wraps binary files in a C++ translation unit (escaped string literals,  *)
(* a sentinel-terminated FileToc table and two accessors) plus its header. *)
(*                                                                         *)
(* Strings are sequences of character codes (0..255).  A stream's content  *)
(* is the sequence of writes made to it: one segment per FPrintF call,     *)
(* named by its format literal and carrying the rendered arguments, and    *)
(* one segment per fputc.                                                  *)
(***************************************************************************)
EXTENDS Integers, Sequences, FiniteSets

VARIABLES
  argv,         \* the argument vector; argv[1] is C's argv[0]
  argc,         \* main's argc, decremented as arguments are consumed
  arg,          \* main's arg pointer, as an index into argv
  package,      \* const char* package
  name,         \* const char* name
  toc_ident,    \* std::string toc_ident
  ns,           \* const char* ns
  out_h,        \* File out_h: [st, text]
  out_cc,       \* File out_cc: [st, text]
  in,           \* File in of the current loop iteration: [st, name, pos]
  toc_entries,  \* std::vector<std::pair<std::string, std::string>>
  pc,           \* position in main
  exit_code,    \* how the process ended
  log,          \* what was written to stderr
  opened,       \* the INPUT paths fopen was called on, in order
  read_log      \* per opened input, the bytes fgetc returned

vars == <<argv, argc, arg, package, name, toc_ident, ns, out_h, out_cc, in,
          toc_entries, pc, exit_code, log, opened, read_log>>

----------------------------------------------------------------------------
(* Bounds of the model. *)

\* INPUT arguments on the command line.
MaxInputs == 2
\* Bytes read from all input files of one run of the whole program.
MaxBytes == 3
\* Bytes in the input file of the escaper specification.
MaxEscLen == 3
\* Characters in the argument that the sanitizer specification varies.
MaxStrLen == 3

----------------------------------------------------------------------------
(* Strings and small helpers. *)

RECURSIVE Concat(_)
Concat(ss) == IF ss = <<>> THEN <<>> ELSE Head(ss) \o Concat(Tail(ss))

\* "_H_", "/", "k"
s_H_ == <<95, 72, 95>>
s_underscore == <<95>>
s_slash == <<47>>
s_k == <<107>>

\* %d of a non-negative integer: its decimal digits.
RECURSIVE StrFormatD(_)
StrFormatD(n) ==
  IF n < 10 THEN <<48 + n>> ELSE StrFormatD(n \div 10) \o <<48 + (n % 10)>>

Seg(fmt, args) == [fmt |-> fmt, args |-> args]

----------------------------------------------------------------------------
(* FWriteCEscapedC *)

kCEscapedLenTable ==
  << 4, 4, 4, 4, 4, 4, 4, 4, 4, 2, 2, 4, 4, 2, 4, 4,
     4, 4, 4, 4, 4, 4, 4, 4, 4, 4, 4, 4, 4, 4, 4, 4,
     1, 1, 2, 1, 1, 1, 1, 1, 1, 1, 1, 1, 1, 1, 1, 1,
     1, 1, 1, 1, 1, 1, 1, 1, 1, 1, 1, 1, 1, 1, 1, 2,
     1, 1, 1, 1, 1, 1, 1, 1, 1, 1, 1, 1, 1, 1, 1, 1,
     1, 1, 1, 1, 1, 1, 1, 1, 1, 1, 1, 1, 2, 1, 1, 1,
     1, 1, 1, 1, 1, 1, 1, 1, 1, 1, 1, 1, 1, 1, 1, 1,
     1, 1, 1, 1, 1, 1, 1, 1, 1, 1, 1, 1, 1, 1, 1, 4,
     4, 4, 4, 4, 4, 4, 4, 4, 4, 4, 4, 4, 4, 4, 4, 4,
     4, 4, 4, 4, 4, 4, 4, 4, 4, 4, 4, 4, 4, 4, 4, 4,
     4, 4, 4, 4, 4, 4, 4, 4, 4, 4, 4, 4, 4, 4, 4, 4,
     4, 4, 4, 4, 4, 4, 4, 4, 4, 4, 4, 4, 4, 4, 4, 4,
     4, 4, 4, 4, 4, 4, 4, 4, 4, 4, 4, 4, 4, 4, 4, 4,
     4, 4, 4, 4, 4, 4, 4, 4, 4, 4, 4, 4, 4, 4, 4, 4,
     4, 4, 4, 4, 4, 4, 4, 4, 4, 4, 4, 4, 4, 4, 4, 4,
     4, 4, 4, 4, 4, 4, 4, 4, 4, 4, 4, 4, 4, 4, 4, 4 >>

\* The table with the entries the switch of FWriteCEscapedC has cases for
\* (NUL and apostrophe) set to 2.
kCEscapedLen_AsSwitch(c) ==
  IF c = 0 \/ c = 39 THEN 2 ELSE kCEscapedLenTable[c + 1]

\* kCEscapedLen[c]
kCEscapedLen(c) == kCEscapedLenTable[c + 1]

\* FWriteCEscapedC with the middle octal digit computed as c / 8.
FWriteCEscapedC_MidDigit(c) ==
  LET char_len == kCEscapedLen(c) IN
  IF char_len = 1 THEN <<c>>
  ELSE IF char_len = 2 THEN
    <<92>> \o (CASE c = 0 -> <<48>>
                 [] c = 10 -> <<110>>
                 [] c = 13 -> <<114>>
                 [] c = 9 -> <<116>>
                 [] c \in {34, 39, 92, 63} -> <<c>>
                 [] OTHER -> <<>>)
  ELSE <<92, 48 + (c \div 64), 48 + (c \div 8), 48 + (c % 8)>>

\* The characters FWriteCEscapedC(c, out) writes with fputc, in order.
FWriteCEscapedC(c) ==
  LET char_len == kCEscapedLen(c) IN
  IF char_len = 1 THEN <<c>>
  ELSE IF char_len = 2 THEN
    <<92>> \o (CASE c = 0 -> <<48>>          \* '0'
                 [] c = 10 -> <<110>>        \* 'n'
                 [] c = 13 -> <<114>>        \* 'r'
                 [] c = 9 -> <<116>>         \* 't'
                 [] c \in {34, 39, 92, 63} -> <<c>>
                 [] OTHER -> <<>>)
  ELSE <<92, 48 + (c \div 64), 48 + ((c % 64) \div 8), 48 + (c % 8)>>

\* The fputc segments of one FWriteCEscapedC call.
EscapedSegs(c) ==
  LET t == FWriteCEscapedC(c) IN
  [i \in 1..Len(t) |-> Seg("fputc", <<<<t[i]>>>>)]

----------------------------------------------------------------------------
(* Identifier helpers of main *)

ascii_isalnum(c) == c \in 48..57 \/ c \in 65..90 \/ c \in 97..122

\* std::replace_if(s.begin(), s.end(), !ascii_isalnum, '_')
ReplaceNonAlnum_KeepDot(s) ==
  [i \in 1..Len(s) |-> IF ascii_isalnum(s[i]) \/ s[i] = 46 THEN s[i] ELSE 95]

ReplaceNonAlnum(s) ==
  [i \in 1..Len(s) |-> IF ascii_isalnum(s[i]) THEN s[i] ELSE 95]

\* absl::StrReplaceAll(name, {{"-", "_"}})
StrReplaceAll(s) == [i \in 1..Len(s) |-> IF s[i] = 45 THEN 95 ELSE s[i]]

\* sapi::file_util::fileops::Basename: what follows the last '/'.
Basename(path) ==
  LET slashes == {i \in 1..Len(path) : path[i] = 47}
      last == IF slashes = {} THEN 0
              ELSE CHOOSE i \in slashes : \A j \in slashes : j <= i
  IN SubSeq(path, last + 1, Len(path))

\* ident: "k" + basename, sanitized.
Ident(path) == ReplaceNonAlnum(s_k \o Basename(path))

\* header_guard: "%s_%s_H_" of package and toc_ident, sanitized.
HeaderGuard(pkg, ident) ==
  ReplaceNonAlnum(pkg \o s_underscore \o ident \o s_H_)

\* package_name: package, "/" unless package is empty, name.
PackageName(pkg, nm) == (IF pkg # <<>> THEN pkg \o s_slash ELSE <<>>) \o nm


----------------------------------------------------------------------------
(* The format literals, as the segments one FPrintF call of each appends. *)

\* Lines 229-238: everything main writes to the header file.
HFileText(pkg, ident, nsq) ==
  LET have_ns == Len(nsq) > 0
      header_guard == HeaderGuard(pkg, ident)
  IN <<Seg("kHFileHeaderFmt", <<header_guard, header_guard>>)>>
     \o (IF have_ns THEN <<Seg("kHNamespaceBeginFmt", <<nsq>>)>> ELSE <<>>)
     \o <<Seg("kHFileTocDefsFmt", <<ident, ident>>)>>
     \o (IF have_ns THEN <<Seg("kHNamespaceEndFmt", <<nsq>>)>> ELSE <<>>)
     \o <<Seg("kHFileFooterFmt", <<header_guard>>)>>

\* Lines 246-254: the head of the translation unit.
CcFileHead(pkg, nm, nsq) ==
  <<Seg("kCcFileHeaderFmt", <<PackageName(pkg, nm)>>)>>
  \o (IF Len(nsq) > 0 THEN <<Seg("kCcNamespaceBeginFmt", <<nsq>>)>> ELSE <<>>)

\* The entries with those whose identifier an earlier entry has left out.
CcTocEntries_Dedup(entries) ==
  LET keep == SelectSeq([i \in 1..Len(entries) |-> i],
                LAMBDA i : \A j \in 1..(i - 1) : entries[j][2] # entries[i][2])
  IN [n \in 1..Len(keep) |->
        Seg("kCcFileTocDefsEntryFmt",
            <<entries[keep[n]][1], entries[keep[n]][2], entries[keep[n]][2]>>)]

\* Lines 280-283: one kCcFileTocDefsEntryFmt per remembered entry, in order.
CcTocEntries(entries) ==
  [i \in 1..Len(entries) |->
     Seg("kCcFileTocDefsEntryFmt",
         <<entries[i][1], entries[i][2], entries[i][2]>>)]

\* The tail without the namespace end.
CcFileTail_NoNamespaceEnd(entries, ident, nsq) ==
  <<Seg("kCcFileTocDefsBegin", <<>>)>>
  \o CcTocEntries(entries)
  \o <<Seg("kCcFileTocDefsEndFmt", <<ident, ident>>)>>

\* Lines 279-288: the table, the accessors and the namespace end.
CcFileTail(entries, ident, nsq) ==
  <<Seg("kCcFileTocDefsBegin", <<>>)>>
  \o CcTocEntries(entries)
  \o <<Seg("kCcFileTocDefsEndFmt", <<ident, ident>>)>>
  \o (IF Len(nsq) > 0 THEN <<Seg("kCcNamespaceEndFmt", <<nsq>>)>> ELSE <<>>)

\* ftell(in.get()): the position of a stream opened "rb" on a regular file.
ftell_CountsEof(f) == f.pos + 1

ftell(f) == f.pos

----------------------------------------------------------------------------
(* The inputs the specifications draw from. *)

s_prog == <<102, 119>>                        \* "fw"
s_out_h == <<111, 46, 104>>                   \* "o.h"
s_out_cc == <<111, 46, 99, 99>>               \* "o.cc"
s_a_dot_b == <<97, 46, 98>>                   \* "a.b"
s_d_a_dash_b == <<100, 47, 97, 45, 98>>       \* "d/a-b"
s_my_toc == <<109, 121, 45, 116, 111, 99>>    \* "my-toc"
s_pkg == <<97, 47, 98>>                       \* "a/b"
s_ns == <<110, 115>>                          \* "ns"

Packages == {<<>>, s_pkg}
Names == {s_my_toc}
Namespaces == {<<>>, s_ns}
Paths == {s_a_dot_b, s_d_a_dash_b}

\* Bytes of the input files: one of each token length (1, 2 and 4).
ByteSample == {65, 10, 0}

SeqsUpTo(S, n) == UNION {[1..k -> S] : k \in 0..n}

\* Well-formed argument vectors, with 0..MaxInputs INPUT arguments, and the
\* proper prefixes of one of them.
ArgVectors ==
  {<<s_prog, p, n, q, s_out_h, s_out_cc>> \o ins :
     p \in Packages, n \in Names, q \in Namespaces,
     ins \in SeqsUpTo(Paths, MaxInputs)}
  \cup {SubSeq(<<s_prog, s_pkg, s_my_toc, s_ns, s_out_h, s_out_cc>>, 1, k) :
          k \in 1..5}

Unopened == [st |-> "unopened", text |-> <<>>]
NoFile == [st |-> "none", name |-> <<>>, pos |-> 0]

InitOf(av) ==
  /\ argv = av
  /\ argc = Len(av)
  /\ arg = 1
  /\ package = <<>>
  /\ name = <<>>
  /\ toc_ident = <<>>
  /\ ns = <<>>
  /\ out_h = Unopened
  /\ out_cc = Unopened
  /\ in = NoFile
  /\ toc_entries = <<>>
  /\ pc = "start"
  /\ exit_code = "running"
  /\ log = <<>>
  /\ opened = <<>>
  /\ read_log = <<>>

Init == \E av \in ArgVectors : InitOf(av)

----------------------------------------------------------------------------
(* Ways the process ends: return from main, _Exit(EXIT_FAILURE) in         *)
(* File::Check, abort() in SAPI_RAW_PCHECK.  _Exit and abort run no        *)
(* destructor and flush no stream.                                         *)

Stderr(kind, what) == [kind |-> kind, what |-> what]

Terminate(code, msgs) ==
  /\ pc' = "exited"
  /\ exit_code' = code
  /\ log' = log \o msgs

\* File::Check on a stream whose error indicator is set.
CheckFails(path) == Terminate("EXIT_FAILURE", <<Stderr("I/O on", path)>>)

\* The File constructor when fopen returns nullptr.  (Its own Check, on a
\* stream just opened, finds no error.)
OpenFails(path) == Terminate("abort", <<Stderr("Open", path)>>)

----------------------------------------------------------------------------
(* main *)

\* Lines 202-220: the arity check, then PACKAGE, NAME and NAMESPACE.
ParseArgs_Min6 ==
  /\ pc = "start"
  /\ IF argc < 6
     THEN /\ Terminate("EXIT_FAILURE", <<Stderr("usage", argv[1])>>)
          /\ UNCHANGED <<argc, arg, package, name, toc_ident, ns>>
     ELSE /\ package' = argv[2]
          /\ name' = argv[3]
          /\ toc_ident' = StrReplaceAll(argv[3])
          /\ ns' = argv[4]
          /\ arg' = 5
          /\ argc' = argc - 3
          /\ pc' = "header"
          /\ UNCHANGED <<exit_code, log>>
  /\ UNCHANGED <<argv, out_h, out_cc, in, toc_entries, opened, read_log>>

ParseArgs ==
  /\ pc = "start"
  /\ IF argc < 7
     THEN /\ Terminate("EXIT_FAILURE", <<Stderr("usage", argv[1])>>)
          /\ UNCHANGED <<argc, arg, package, name, toc_ident, ns>>
     ELSE /\ package' = argv[2]
          /\ name' = argv[3]
          /\ toc_ident' = StrReplaceAll(argv[3])
          /\ ns' = argv[4]
          /\ arg' = 5
          /\ argc' = argc - 3
          /\ pc' = "header"
          /\ UNCHANGED <<exit_code, log>>
  /\ UNCHANGED <<argv, out_h, out_cc, in, toc_entries, opened, read_log>>

\* Lines 222-240 with out_h declared outside the block: it stays open.
WriteHeaderFile_NoScope ==
  /\ pc = "header"
  /\ arg' = arg + 1
  /\ argc' = argc - 1
  /\ \E outcome \in {"open fails", "stream error", "ok"} :
       CASE outcome = "open fails" ->
              /\ OpenFails(argv[arg])
              /\ UNCHANGED out_h
         [] outcome = "stream error" ->
              /\ out_h' = [st |-> "open",
                           text |-> HFileText(package, toc_ident, ns)]
              /\ CheckFails(argv[arg])
         [] outcome = "ok" ->
              /\ out_h' = [st |-> "open",
                           text |-> HFileText(package, toc_ident, ns)]
              /\ pc' = "open_cc"
              /\ UNCHANGED <<exit_code, log>>
  /\ UNCHANGED <<argv, package, name, toc_ident, ns, out_cc, in, toc_entries,
                 opened, read_log>>

\* Lines 222-240: the header file is opened, written, checked and closed.
WriteHeaderFile ==
  /\ pc = "header"
  /\ arg' = arg + 1
  /\ argc' = argc - 1
  /\ \E outcome \in {"open fails", "stream error", "ok"} :
       CASE outcome = "open fails" ->
              /\ OpenFails(argv[arg])
              /\ UNCHANGED out_h
         [] outcome = "stream error" ->
              /\ out_h' = [st |-> "open",
                           text |-> HFileText(package, toc_ident, ns)]
              /\ CheckFails(argv[arg])
         [] outcome = "ok" ->
              /\ out_h' = [st |-> "closed",
                           text |-> HFileText(package, toc_ident, ns)]
              /\ pc' = "open_cc"
              /\ UNCHANGED <<exit_code, log>>
  /\ UNCHANGED <<argv, package, name, toc_ident, ns, out_cc, in, toc_entries,
                 opened, read_log>>

\* Lines 243-254: the translation unit is opened and its head written.
OpenCc ==
  /\ pc = "open_cc"
  /\ arg' = arg + 1
  /\ argc' = argc - 1
  /\ \E ok \in BOOLEAN :
       IF ok
       THEN /\ out_cc' = [st |-> "open",
                          text |-> CcFileHead(package, name, ns)]
            /\ pc' = "loop"
            /\ UNCHANGED <<exit_code, log>>
       ELSE /\ OpenFails(argv[arg])
            /\ UNCHANGED out_cc
  /\ UNCHANGED <<argv, package, name, toc_ident, ns, out_h, in, toc_entries,
                 opened, read_log>>

\* Lines 257-269: the next INPUT is opened, its identifier derived, the
\* literal begun and the (basename, ident) pair remembered.
OpenInput ==
  /\ pc = "loop"
  /\ argc > 1
  /\ arg' = arg + 1
  /\ argc' = argc - 1
  /\ opened' = Append(opened, argv[arg])
  /\ \E ok \in BOOLEAN :
       IF ok
       THEN /\ in' = [st |-> "open", name |-> argv[arg], pos |-> 0]
            /\ out_cc' = [out_cc EXCEPT !.text =
                 Append(@, Seg("kCcDataBeginFmt", <<Ident(argv[arg])>>))]
            /\ toc_entries' =
                 Append(toc_entries, <<Basename(argv[arg]), Ident(argv[arg])>>)
            /\ read_log' = Append(read_log, <<>>)
            /\ pc' = "read"
            /\ UNCHANGED <<exit_code, log>>
       ELSE /\ OpenFails(argv[arg])
            /\ UNCHANGED <<in, out_cc, toc_entries, read_log>>
  /\ UNCHANGED <<argv, package, name, toc_ident, ns, out_h>>

\* Lines 272-273 with c drawn from S: fgetc returns a byte, which is escaped
\* into the literal.
ReadByteFrom(S) ==
  /\ pc = "read"
  /\ \E c \in S :
       /\ in' = [in EXCEPT !.pos = @ + 1]
       /\ out_cc' = [out_cc EXCEPT !.text = @ \o EscapedSegs(c)]
       /\ read_log' = [read_log EXCEPT ![Len(read_log)] = Append(@, c)]
  /\ UNCHANGED <<argv, argc, arg, package, name, toc_ident, ns, out_h,
                 toc_entries, pc, exit_code, log, opened>>

ReadByte == Len(Concat(read_log)) < MaxBytes /\ ReadByteFrom(ByteSample)

\* Lines 272, 275-278 with a Check that logs the read error and goes on.
ReadEof_LogOnly ==
  /\ pc = "read"
  /\ \E err \in BOOLEAN :
       /\ out_cc' = [out_cc EXCEPT !.text =
            Append(@, Seg("kCcDataEndFmt", <<StrFormatD(ftell(in))>>))]
       /\ in' = NoFile
       /\ pc' = "loop"
       /\ log' = IF err THEN Append(log, Stderr("I/O on", in.name)) ELSE log
       /\ UNCHANGED exit_code
  /\ UNCHANGED <<argv, argc, arg, package, name, toc_ident, ns, out_h,
                 toc_entries, opened, read_log>>

\* Lines 272, 275-278: fgetc returns EOF, at the end of the file or on a read
\* error; in.Check(); the literal is ended with ftell's value; in is closed.
ReadEof ==
  /\ pc = "read"
  /\ \E err \in BOOLEAN :
       IF err
       THEN /\ CheckFails(in.name)
            /\ UNCHANGED <<out_cc, in>>
       ELSE /\ out_cc' = [out_cc EXCEPT !.text =
                 Append(@, Seg("kCcDataEndFmt", <<StrFormatD(ftell(in))>>))]
            /\ in' = NoFile
            /\ pc' = "loop"
            /\ UNCHANGED <<exit_code, log>>
  /\ UNCHANGED <<argv, argc, arg, package, name, toc_ident, ns, out_h,
                 toc_entries, opened, read_log>>

\* Lines 279-291 with out_cc never destroyed.
WriteToc_Leak ==
  /\ pc = "loop"
  /\ argc <= 1
  /\ \E err \in BOOLEAN :
       /\ out_cc' = [out_cc EXCEPT !.text =
            @ \o CcFileTail(toc_entries, toc_ident, ns)]
       /\ IF err THEN CheckFails(argv[6]) ELSE Terminate("EXIT_SUCCESS", <<>>)
  /\ UNCHANGED <<argv, argc, arg, package, name, toc_ident, ns, out_h, in,
                 toc_entries, opened, read_log>>

\* Lines 279-291: the table and the accessors are written, out_cc is checked
\* and main returns, which closes out_cc.
WriteToc ==
  /\ pc = "loop"
  /\ argc <= 1
  /\ \E err \in BOOLEAN :
       IF err
       THEN /\ out_cc' = [out_cc EXCEPT !.text =
                 @ \o CcFileTail(toc_entries, toc_ident, ns)]
            /\ CheckFails(argv[6])
       ELSE /\ out_cc' = [st |-> "closed",
                          text |-> out_cc.text
                                   \o CcFileTail(toc_entries, toc_ident, ns)]
            /\ Terminate("EXIT_SUCCESS", <<>>)
  /\ UNCHANGED <<argv, argc, arg, package, name, toc_ident, ns, out_h, in,
                 toc_entries, opened, read_log>>

Next ==
  \/ ParseArgs
  \/ WriteHeaderFile
  \/ OpenCc
  \/ OpenInput
  \/ ReadByte
  \/ ReadEof
  \/ WriteToc

Spec == Init /\ [][Next]_vars

----------------------------------------------------------------------------
(* The escaper on its own: the read loop of one input file (lines 271-277), *)
(* from the state main is in once that file is open, over all 256 byte      *)
(* values: every file of one or two bytes, and the longer ones with at most *)
(* one byte outside EscSample.                                              *)

\* NUL, '1', '8', backslash, double quote
EscSample == {0, 49, 56, 92, 34}

EscArgv == <<s_prog, s_pkg, s_my_toc, s_ns, s_out_h, s_out_cc, s_a_dot_b>>

EscInit ==
  /\ argv = EscArgv
  /\ argc = 1
  /\ arg = 8
  /\ package = s_pkg
  /\ name = s_my_toc
  /\ toc_ident = StrReplaceAll(s_my_toc)
  /\ ns = s_ns
  /\ out_h = [st |-> "closed", text |-> HFileText(s_pkg, StrReplaceAll(s_my_toc), s_ns)]
  /\ out_cc = [st |-> "open",
               text |-> Append(CcFileHead(s_pkg, s_my_toc, s_ns),
                               Seg("kCcDataBeginFmt", <<Ident(s_a_dot_b)>>))]
  /\ in = [st |-> "open", name |-> s_a_dot_b, pos |-> 0]
  /\ toc_entries = <<<<Basename(s_a_dot_b), Ident(s_a_dot_b)>>>>
  /\ pc = "read"
  /\ exit_code = "running"
  /\ log = <<>>
  /\ opened = <<s_a_dot_b>>
  /\ read_log = <<<<>>>>

\* The bytes the next fgetc may return: any byte while the file holds no byte
\* outside EscSample, or one such byte and nothing else (so every pair of
\* bytes occurs); a byte of EscSample after one outside byte; none after two.
EscNextBytes(read) ==
  LET outside == Cardinality({i \in 1..Len(read) : read[i] \notin EscSample})
  IN IF outside = 0 \/ (outside = 1 /\ Len(read) = 1) THEN 0..255
     ELSE IF outside = 1 THEN EscSample
     ELSE {}

EscReadByte ==
  /\ in.pos < MaxEscLen
  /\ ReadByteFrom(EscNextBytes(read_log[1]))

EscNext == EscReadByte \/ ReadEof

SpecEsc == EscInit /\ [][EscNext]_vars

----------------------------------------------------------------------------
(* The identifier derivations on their own: main up to the opening of the   *)
(* first INPUT, with one of PACKAGE, NAME and INPUT ranging over every      *)
(* string of CharSample up to MaxStrLen characters.                         *)

\* 'a', 'Z', '7', '-', '.', '/', a byte with the high bit set
CharSample == {97, 90, 55, 45, 46, 47, 200}

SanArgVectors ==
  {<<s_prog, s, s_my_toc, s_ns, s_out_h, s_out_cc, s_a_dot_b>> :
     s \in SeqsUpTo(CharSample, MaxStrLen)}
  \cup {<<s_prog, s_pkg, s, s_ns, s_out_h, s_out_cc, s_a_dot_b>> :
     s \in SeqsUpTo(CharSample, MaxStrLen)}
  \cup {<<s_prog, s_pkg, s_my_toc, s_ns, s_out_h, s_out_cc, s>> :
     s \in SeqsUpTo(CharSample, MaxStrLen)}

SanInit == \E av \in SanArgVectors : InitOf(av)

SanNext == ParseArgs \/ WriteHeaderFile \/ OpenCc \/ OpenInput

SpecSan == SanInit /\ [][SanNext]_vars

----------------------------------------------------------------------------
(* Reading the emitted text back. *)

\* Decoding a C string literal's characters: a raw character stands for
\* itself; a backslash starts a simple escape or an octal escape, which takes
\* up to three octal digits, as many as follow.  Invalid marks what is no
\* valid literal text: a dangling or unknown escape, an octal value over 255,
\* an unescaped double quote or a raw character outside 32..126.
Invalid == 0 - 1

IsOctDigit(ch) == ch \in 48..55

OctalRun(t, i) ==
  IF i + 1 <= Len(t) /\ IsOctDigit(t[i + 1])
  THEN IF i + 2 <= Len(t) /\ IsOctDigit(t[i + 2]) THEN 3 ELSE 2
  ELSE 1

RECURSIVE OctalValue(_, _, _)
OctalValue(t, i, n) ==
  IF n = 0 THEN 0 ELSE OctalValue(t, i, n - 1) * 8 + (t[i + n - 1] - 48)

RECURSIVE CUnescapeFrom(_, _)
CUnescapeFrom(t, i) ==
  IF i > Len(t) THEN <<>>
  ELSE IF t[i] = 92 THEN
    IF i + 1 > Len(t) THEN <<Invalid>>
    ELSE LET e == t[i + 1] IN
      IF IsOctDigit(e) THEN
        LET n == OctalRun(t, i + 1)
            v == OctalValue(t, i + 1, n)
        IN <<IF v > 255 THEN Invalid ELSE v>> \o CUnescapeFrom(t, i + 1 + n)
      ELSE IF e = 110 THEN <<10>> \o CUnescapeFrom(t, i + 2)
      ELSE IF e = 114 THEN <<13>> \o CUnescapeFrom(t, i + 2)
      ELSE IF e = 116 THEN <<9>> \o CUnescapeFrom(t, i + 2)
      ELSE IF e \in {34, 39, 92, 63} THEN <<e>> \o CUnescapeFrom(t, i + 2)
      ELSE <<Invalid>>
  ELSE IF t[i] = 34 \/ t[i] \notin 32..126 THEN <<Invalid>>
  ELSE <<t[i]>> \o CUnescapeFrom(t, i + 1)

CUnescape(t) == CUnescapeFrom(t, 1)

\* Where the literals of a stream's text begin and end.
DataBegins(t) == {i \in 1..Len(t) : t[i].fmt = "kCcDataBeginFmt"}
DataEnds(t) == {i \in 1..Len(t) : t[i].fmt = "kCcDataEndFmt"}

\* The index of the k-th literal's begin segment.
NthBegin(t, k) ==
  CHOOSE i \in DataBegins(t) : Cardinality({j \in DataBegins(t) : j <= i}) = k

\* The segment after the k-th literal's characters: its end segment, or one
\* past the text while the literal is being written.
LiteralStop(t, k) ==
  LET b == NthBegin(t, k)
      after == {j \in (b + 1)..Len(t) : t[j].fmt # "fputc"}
  IN IF after = {} THEN Len(t) + 1
     ELSE CHOOSE j \in after : \A j2 \in after : j <= j2

\* The characters of the k-th literal.
LiteralChars(t, k) ==
  LET b == NthBegin(t, k)
      e == LiteralStop(t, k)
  IN [i \in 1..(e - b - 1) |-> t[b + i].args[1][1]]

\* Whether the k-th literal has been ended, and the length written then.
LiteralEnded(t, k) ==
  LiteralStop(t, k) <= Len(t) /\ t[LiteralStop(t, k)].fmt = "kCcDataEndFmt"

LiteralLength(t, k) == t[LiteralStop(t, k)].args[1]


\* The FileToc array the emitted table defines: one element per entry segment,
\* and the terminating element of kCcFileTocDefsEndFmt.
Sentinel == [name |-> <<>>, data |-> <<>>, null |-> TRUE]

kToc(t) ==
  LET segs == SelectSeq(t, LAMBDA sg : sg.fmt \in {"kCcFileTocDefsEntryFmt",
                                                   "kCcFileTocDefsEndFmt"})
  IN [i \in 1..Len(segs) |->
        IF segs[i].fmt = "kCcFileTocDefsEntryFmt"
        THEN [name |-> segs[i].args[1], data |-> segs[i].args[2], null |-> FALSE]
        ELSE Sentinel]

\* <ident>_size(): ABSL_ARRAYSIZE(kToc) - 1
toc_size(t) == Len(kToc(t)) - 1

SegsOf(t, fmts) == SelectSeq(t, LAMBDA sg : sg.fmt \in fmts)

\* Whether some write to the stream rendered the string s.
Mentions(t, s) ==
  \E i \in 1..Len(t) : \E j \in 1..Len(t[i].args) : t[i].args[j] = s

Last(q) == q[Len(q)]

----------------------------------------------------------------------------
(* The claims. *)

\* C1: decoding the text of every literal as a C string literal (octal
\* escapes taking up to three digits) gives back exactly the bytes read from
\* the file, in number and in value, whatever byte follows an escape.
C1_RoundTrip ==
  \A k \in 1..Len(read_log) :
    /\ CUnescape(LiteralChars(out_cc.text, k)) = read_log[k]
    /\ Len(CUnescape(LiteralChars(out_cc.text, k))) = Len(read_log[k])

\* C1 witness: a file of NUL, '1', '8' has been escaped and its literal ended.
C1_Witness ==
  /\ read_log = <<<<0, 49, 56>>>>
  /\ LiteralEnded(out_cc.text, 1)
  /\ LiteralChars(out_cc.text, 1) = <<92, 48, 48, 48, 49, 56>>

\* The token lengths as the claim C2 classifies the bytes.
ClaimedLen(c) ==
  IF c \in {0, 10, 13, 9, 34, 39, 92, 63} THEN 2
  ELSE IF c \in 32..126 THEN 1
  ELSE 4

RECURSIVE SumOver(_, _)
SumOver(q, i) == IF i = 0 THEN 0 ELSE SumOver(q, i - 1) + q[i]

\* C2 as stated: each byte's token is 2 characters for NUL, \n, \r, \t, double
\* quote, apostrophe, backslash and question mark, 1 for every other
\* printable byte and 4 for every remaining byte.
C2_Original ==
  \A k \in 1..Len(read_log) :
    Len(LiteralChars(out_cc.text, k)) =
      SumOver([i \in 1..Len(read_log[k]) |-> ClaimedLen(read_log[k][i])],
              Len(read_log[k]))

\* The token of a byte by class: backslash and a letter or the character
\* itself for \n, \r, \t, double quote, backslash and question mark; the raw
\* byte for every other printable byte, apostrophe included; backslash and
\* three octal digits for the rest, NUL included.
ClassToken(c) ==
  IF c = 10 THEN <<92, 110>>
  ELSE IF c = 13 THEN <<92, 114>>
  ELSE IF c = 9 THEN <<92, 116>>
  ELSE IF c \in {34, 92, 63} THEN <<92, c>>
  ELSE IF c \in 32..126 THEN <<c>>
  ELSE <<92, 48 + (c \div 64), 48 + ((c % 64) \div 8), 48 + (c % 8)>>

\* C2 amended: the text of each literal is the concatenation, byte by byte, of
\* the class tokens: 2 characters for \n, \r, \t, double quote, backslash and
\* question mark; 1 for every other printable byte, apostrophe included; 4
\* (backslash, value/64, (value%64)/8, value%8) for the rest, NUL included.
C2_TokenByClass ==
  \A k \in 1..Len(read_log) :
    LiteralChars(out_cc.text, k) =
      Concat([i \in 1..Len(read_log[k]) |-> ClassToken(read_log[k][i])])

\* C2 witness: an apostrophe then a NUL were escaped, as 1 and 4 characters.
C2_Witness ==
  /\ read_log = <<<<39, 0>>>>
  /\ LiteralChars(out_cc.text, 1) = <<39, 92, 48, 48, 48>>

\* C3: the length written after each literal is the number of bytes read from
\* that file, and a run that succeeds has ended every literal.
C3_LengthIsBytesRead ==
  /\ \A k \in 1..Len(read_log) :
       LiteralEnded(out_cc.text, k) =>
         LiteralLength(out_cc.text, k) = StrFormatD(Len(read_log[k]))
  /\ exit_code = "EXIT_SUCCESS" =>
       /\ Len(read_log) = Len(argv) - 6
       /\ \A k \in 1..Len(read_log) : LiteralEnded(out_cc.text, k)

\* C3 witness: a successful run over a file of three bytes escaped as 1, 2
\* and 4 characters (length 3 for 7 characters) and an empty file (length 0).
C3_Witness ==
  /\ exit_code = "EXIT_SUCCESS"
  /\ read_log = <<<<65, 10, 0>>, <<>>>>
  /\ Len(LiteralChars(out_cc.text, 1)) = 7
  /\ LiteralLength(out_cc.text, 1) = <<51>>
  /\ LiteralLength(out_cc.text, 2) = <<48>>

\* C4: after a successful run over N inputs the table has N+1 elements, the
\* i-th carrying the base name and identifier of the i-th INPUT, the last and
\* only the last being the sentinel, and the size accessor returns N.
C4_Table ==
  exit_code = "EXIT_SUCCESS" =>
    LET N == Len(argv) - 6
        T == kToc(out_cc.text)
    IN /\ N >= 1
       /\ Len(T) = N + 1
       /\ \A i \in 1..N :
            T[i] = [name |-> Basename(argv[6 + i]),
                    data |-> Ident(argv[6 + i]), null |-> FALSE]
       /\ T[N + 1] = Sentinel
       /\ \A i \in 1..Len(T) : T[i].null <=> i = N + 1
       /\ toc_size(out_cc.text) = N

\* C4 witness: a successful run over two inputs of different base names and
\* the same identifier.
C4_Witness ==
  /\ exit_code = "EXIT_SUCCESS"
  /\ Len(argv) = 8
  /\ Basename(argv[7]) # Basename(argv[8])
  /\ Ident(argv[7]) = Ident(argv[8])
  /\ Len(kToc(out_cc.text)) = 3

IsAlnumChar(c) ==
  \/ c \in {48, 49, 50, 51, 52, 53, 54, 55, 56, 57}
  \/ (c >= 65 /\ c <= 90)
  \/ (c >= 97 /\ c <= 122)

SanitizedFrom(out, pre) ==
  /\ Len(out) = Len(pre)
  /\ \A i \in 1..Len(pre) :
       /\ IsAlnumChar(pre[i]) => out[i] = pre[i]
       /\ ~IsAlnumChar(pre[i]) => out[i] = 95
       /\ IsAlnumChar(out[i]) \/ out[i] = 95

\* C5: the header guard written to the header and every data identifier
\* written to the translation unit have the length of their pre-sanitized
\* string (PACKAGE_NAME_H_ with NAME's hyphens folded; 'k' plus the base
\* name), keep its alphanumeric characters in place, have an underscore
\* wherever it has another character, and hold nothing else.
C5_Sanitized ==
  /\ out_h.text # <<>> =>
       \A j \in {1, Len(out_h.text)} : \A a \in 1..Len(out_h.text[j].args) :
         SanitizedFrom(out_h.text[j].args[a],
                       argv[2] \o <<95>>
                         \o [i \in 1..Len(argv[3]) |->
                               IF argv[3][i] = 45 THEN 95 ELSE argv[3][i]]
                         \o <<95, 72, 95>>)
  /\ \A k \in 1..Len(toc_entries) :
       /\ out_cc.text[NthBegin(out_cc.text, k)].args[1] = toc_entries[k][2]
       /\ SanitizedFrom(toc_entries[k][2], <<107>> \o toc_entries[k][1])

\* C5 witness: the input "7." followed by a high-bit byte got the identifier
\* k7__ and the package a/b the guard a_b_my_toc_H_.
C5_Witness ==
  /\ pc = "read"
  /\ toc_entries = <<<<<<55, 46, 200>>, <<107, 55, 95, 95>>>>>>
  /\ out_h.text[1].args[1] =
       <<97, 95, 98, 95, 109, 121, 95, 116, 111, 99, 95, 72, 95>>

\* What C6 says of the accessor names and the namespace: both artifacts name
\* the accessors with the same identifier, and both are wrapped in the
\* namespace exactly when NAMESPACE is not empty.
C6_AccessorsAndNamespace ==
  LET hdefs == SegsOf(out_h.text, {"kHFileTocDefsFmt"})
      cdefs == SegsOf(out_cc.text, {"kCcFileTocDefsEndFmt"})
      hns == SegsOf(out_h.text, {"kHNamespaceBeginFmt", "kHNamespaceEndFmt"})
      cns == SegsOf(out_cc.text, {"kCcNamespaceBeginFmt", "kCcNamespaceEndFmt"})
  IN /\ Len(hdefs) = 1 /\ Len(cdefs) = 1
     /\ hdefs[1].args = cdefs[1].args
     /\ IF argv[4] = <<>>
        THEN hns = <<>> /\ cns = <<>>
        ELSE /\ [i \in 1..Len(hns) |-> hns[i].fmt]
                  = <<"kHNamespaceBeginFmt", "kHNamespaceEndFmt">>
             /\ [i \in 1..Len(cns) |-> cns[i].fmt]
                  = <<"kCcNamespaceBeginFmt", "kCcNamespaceEndFmt">>
             /\ \A i \in 1..2 : hns[i].args = <<argv[4]>> /\ cns[i].args = <<argv[4]>>

\* The header guard the header file uses: the token of its #ifndef.
GuardOfHeader == out_h.text[1].args[1]

\* C6 as stated: after a successful run both artifacts use the identical
\* header-guard token, name the accessors alike and are wrapped alike.
C6_Original ==
  exit_code = "EXIT_SUCCESS" =>
    /\ Mentions(out_h.text, GuardOfHeader)
    /\ Mentions(out_cc.text, GuardOfHeader)
    /\ C6_AccessorsAndNamespace

\* C6 amended: the header uses one header-guard token in its #ifndef, #define
\* and #endif; the translation unit holds no header-guard token and names the
\* header only by its include path PACKAGE/NAME; both name the accessors with
\* the same identifier and both are wrapped in the namespace exactly when
\* NAMESPACE is not empty.
C6_Consistent ==
  exit_code = "EXIT_SUCCESS" =>
    /\ \A sg \in {out_h.text[1], Last(out_h.text)} :
         \A a \in 1..Len(sg.args) : sg.args[a] = GuardOfHeader
    /\ out_h.text[1].fmt = "kHFileHeaderFmt"
    /\ Last(out_h.text).fmt = "kHFileFooterFmt"
    /\ ~Mentions(out_cc.text, GuardOfHeader)
    /\ out_cc.text[1] =
         Seg("kCcFileHeaderFmt",
             <<(IF argv[2] = <<>> THEN <<>> ELSE argv[2] \o <<47>>) \o argv[3]>>)
    /\ C6_AccessorsAndNamespace

\* C6 witness: a successful run with an empty NAMESPACE.
C6_Witness ==
  /\ exit_code = "EXIT_SUCCESS"
  /\ argv[4] = <<>>
  /\ out_h.st = "closed" /\ out_cc.st = "closed"

\* Whether the run logged a failure on the INPUT it opened last.
InputFailed ==
  /\ log # <<>>
  /\ opened # <<>>
  /\ Last(log).kind \in {"Open", "I/O on"}
  /\ Last(log).what = Last(opened)

\* C7: once an input cannot be opened or a read error is detected on it, the
\* process has ended with a non-zero exit, the inputs opened are those up to
\* the failing one, and the translation unit holds neither that file's length
\* nor the table nor the accessors, and was not closed.
C7_InputFailureEndsRun ==
  InputFailed =>
    /\ pc = "exited"
    /\ exit_code \in {"EXIT_FAILURE", "abort"}
    /\ opened = SubSeq(argv, 7, 6 + Len(opened))
    /\ Cardinality(DataEnds(out_cc.text)) = Len(opened) - 1
    /\ SegsOf(out_cc.text, {"kCcFileTocDefsBegin", "kCcFileTocDefsEntryFmt",
                            "kCcFileTocDefsEndFmt", "kCcNamespaceEndFmt"}) = <<>>
    /\ out_cc.st = "open"

\* C7 witness: a read error on the first of two inputs after a byte was read.
C7_Witness ==
  /\ InputFailed
  /\ Last(log).kind = "I/O on"
  /\ Len(argv) = 8
  /\ Len(opened) = 1
  /\ Len(read_log[1]) = 1

IoFailed == log # <<>> /\ Last(log).kind \in {"Open", "I/O on"}

\* C9 as stated: on every exit path each output stream that was opened is
\* closed before the process terminates.
C9_Original ==
  pc = "exited" => out_h.st # "open" /\ out_cc.st # "open"

\* C9 amended: a run that succeeds has closed both output streams, a usage
\* error has opened none, and a run ended by an I/O failure leaves the output
\* stream that was open at that moment unclosed (the header stream, closed at
\* the end of its block, is the only one such a run can have closed).
C9_ClosedOnReturn ==
  pc = "exited" =>
    /\ exit_code = "EXIT_SUCCESS" => out_h.st = "closed" /\ out_cc.st = "closed"
    /\ ~IoFailed /\ exit_code # "EXIT_SUCCESS" => out_h = Unopened /\ out_cc = Unopened
    /\ IoFailed =>
         /\ out_cc.st # "closed"
         /\ out_h.st = "open" => Last(log) = Stderr("I/O on", argv[5])
         /\ out_cc.st = "open" => out_h.st = "closed"

\* C9 witness: a run ended by an I/O failure with the translation unit open.
C9_Witness ==
  /\ pc = "exited"
  /\ IoFailed
  /\ out_cc.st = "open"
  /\ out_cc.text # <<>>

\* C10 as stated: no write to the header happens while the translation unit
\* is still unopened.
C10_Original ==
  out_h.text # <<>> => out_cc.st # "unopened"

\* C10 amended: the header is opened, written to its end, checked and closed
\* before the translation unit is opened, and is not written to afterwards.
C10_HeaderFirst ==
  out_cc.st # "unopened" =>
    /\ out_h.st = "closed"
    /\ out_h.text = HFileText(argv[2], StrReplaceAll(argv[3]), argv[4])
    /\ Last(out_h.text).fmt = "kHFileFooterFmt"

\* C10 witness: the translation unit is open and has been written to.
C10_Witness ==
  /\ out_cc.st = "open"
  /\ out_cc.text # <<>>
  /\ out_h.st = "closed"

====
